---- MODULE Spec2Model ----
(***************************************************************************)
(* Trackfa.st tracking pipeline: the edge middleware (middleware.ts,       *)
(* validateTrackingRequest) in front of the tracking route                 *)
(* (src/app/api/track/route.ts, POST), and the route's fan-out to the      *)
(* analytics providers.  One request is in flight at a time; process       *)
(* environment variables are fixed for the life of the process.  The       *)
(* client SDK (src/lib/analytics.ts, track) is specified by SdkSpec.       *)
(***************************************************************************)
EXTENDS Integers, Sequences, FiniteSets, TLC

\* ------------------------------------------------------------------------
\* Bounds
\* ------------------------------------------------------------------------
\* number of requests one behaviour serves (also the range of the clock)
MaxClock == 2

\* ------------------------------------------------------------------------
\* JavaScript values of the inbound payload
\* ------------------------------------------------------------------------
Undefined == [t |-> "undefined", s |-> "", n |-> 0]
Str(x) == [t |-> "string", s |-> x, n |-> 0]
Num(x) == [t |-> "number", s |-> "", n |-> x]

\* JS truthiness of a primitive: '' and 0 and undefined are falsy
Truthy(v) ==
  CASE v.t = "undefined" -> FALSE
    [] v.t = "string" -> v.s # ""
    [] v.t = "number" -> v.n # 0
    [] OTHER -> TRUE

\* truthiness of an environment variable (a string, or "" when unset/empty)
EnvSet(x) == x # ""

\* headers.get(name) of a header that is not present
NoHeader == "<null>"

\* ------------------------------------------------------------------------
\* Schema registry (src/lib/event-schemas.ts, generated from insight.yml)
\* ------------------------------------------------------------------------
Prop(nm, kind, req, hasDef, def, enum) ==
  [name |-> nm, kind |-> kind, required |-> req, hasDefault |-> hasDef,
   defaultValue |-> def, enumValues |-> enum]

\* Object.keys(eventSchemas), in registration order
SchemaNames == <<"user_signed_up", "pageview", "payment_completed">>

eventSchemas ==
  [e \in {SchemaNames[i] : i \in 1..Len(SchemaNames)} |->
     CASE e = "user_signed_up" ->
            [properties |->
               << Prop("email", "string", TRUE, FALSE, Undefined, {}),
                  Prop("plan", "enum", TRUE, FALSE, Undefined,
                       {"free", "starter", "growth"}),
                  Prop("source", "string", FALSE, FALSE, Undefined, {}) >>,
             guards |-> << "email_valid" >>]
       [] e = "pageview" ->
            [properties |->
               << Prop("path", "string", TRUE, FALSE, Undefined, {}),
                  Prop("referrer", "string", FALSE, FALSE, Undefined, {}) >>,
             guards |-> << >>]
       [] OTHER ->
            [properties |->
               << Prop("amount", "number", TRUE, FALSE, Undefined, {}),
                  Prop("currency", "string", TRUE, TRUE, Str("USD"), {}) >>,
             guards |-> << "amount_positive" >>]]

\* property names inherited by every object literal from Object.prototype
\* (the ones the model's callers send)
PrototypeKeys == {"toString"}

\* JS `name in eventSchemas`: own keys and inherited ones
InSchemas(name) == name \in DOMAIN eventSchemas \/ name \in PrototypeKeys

\* a property bag is a function from the keys present to their values
Has(bag, k) == k \in DOMAIN bag
Get(bag, k) == IF Has(bag, k) THEN bag[k] ELSE Undefined

WellFormedEmails == {"a@b.com"}

\* every guard name the schemas declare
DeclaredGuards == {"email_valid", "amount_positive"}

\* the guard registries (name -> predicate) a build can ship: complete, or
\* with a declared guard left without an implementation
GuardRegistries == {DeclaredGuards, {"email_valid"}}

\* guard predicates, matched by guard name
GuardHolds(g, bag) ==
  CASE g = "email_valid" ->
         Get(bag, "email").t = "string" /\ Get(bag, "email").s \in WellFormedEmails
    [] g = "amount_positive" ->
         Get(bag, "amount").t = "number" /\ Get(bag, "amount").n > 0
    [] OTHER -> FALSE

KindOk(p, v) ==
  CASE p.kind = "string" -> v.t = "string"
    [] p.kind = "number" -> v.t = "number"
    [] p.kind = "boolean" -> v.t = "boolean"
    [] p.kind = "enum" -> v.t = "string"
    [] OTHER -> FALSE

Pass(bag) == [outcome |-> "pass", kind |-> "", prop |-> "", allowed |-> {},
              normalized |-> bag]
Fail(kind, prop, allowed) ==
  [outcome |-> "fail", kind |-> kind, prop |-> prop, allowed |-> allowed,
   normalized |-> << >>]
\* an error thrown by the validator that is not a verdict on the event
Fault(kind, what) ==
  [outcome |-> "fault", kind |-> kind, prop |-> what, allowed |-> {},
   normalized |-> << >>]

RECURSIVE CheckGuards(_, _, _, _)
CheckGuards(gs, i, bag, impls) ==
  IF i > Len(gs) THEN Pass(bag)
  ELSE IF gs[i] \notin impls THEN Fault("GuardNotImplemented", gs[i])
  ELSE IF ~GuardHolds(gs[i], bag) THEN Fail("GuardViolation", gs[i], {})
  ELSE CheckGuards(gs, i + 1, bag, impls)

RECURSIVE CheckProps(_, _, _)
CheckProps(ps, i, bag) ==
  IF i > Len(ps) THEN Pass(bag)
  ELSE
    LET p == ps[i] IN
    IF Has(bag, p.name) THEN
      IF ~KindOk(p, bag[p.name]) THEN Fail("TypeMismatch", p.name, {})
      ELSE IF p.kind = "enum" /\ bag[p.name].s \notin p.enumValues
        THEN Fail("EnumViolation", p.name, p.enumValues)
      ELSE CheckProps(ps, i + 1, bag)
    ELSE IF p.hasDefault
      THEN CheckProps(ps, i + 1, (p.name :> p.defaultValue) @@ bag)
    ELSE IF p.required THEN Fail("MissingRequired", p.name, {})
    ELSE CheckProps(ps, i + 1, bag)

\* validateEvent(name, properties) with the guard implementations impls: the
\* result it returns, or what it throws (outcome "fail": a verdict on the
\* event; outcome "fault": anything else)
validateEventWith(name, bag, impls) ==
  IF name \notin DOMAIN eventSchemas THEN Fail("UnknownEvent", name, {})
  ELSE
    LET r == CheckProps(eventSchemas[name].properties, 1, bag) IN
    IF r.outcome = "fail" THEN r
    ELSE CheckGuards(eventSchemas[name].guards, 1, r.normalized, impls)

\* ------------------------------------------------------------------------
\* Inbound requests
\* ------------------------------------------------------------------------
Bag1(k, v) == IF v = Undefined THEN << >> ELSE (k :> v)

\* a request body: text that JSON.parse rejects, or the JSON value it yields
Malformed == [kind |-> "malformed", event |-> Undefined, hasProps |-> FALSE,
              properties |-> << >>]
NonObject(k) == [kind |-> k, event |-> Undefined, hasProps |-> FALSE,
                 properties |-> << >>]
Obj(ev, bag) == [kind |-> "object", event |-> ev, hasProps |-> TRUE,
                 properties |-> bag]
\* no body at all: request.text() is ''
EmptyBody == [kind |-> "empty", event |-> Undefined, hasProps |-> FALSE,
              properties |-> << >>]
\* JSON.parse(text) throws a SyntaxError
JsonParseThrows(body) == body.kind \in {"malformed", "empty"}

ObjNoProps(ev) == [kind |-> "object", event |-> ev, hasProps |-> FALSE,
                   properties |-> << >>]

SignupBags ==
  { Bag1("email", em) @@ Bag1("plan", pl) @@ Bag1("source", so) :
      em \in {Undefined, Str("a@b.com"), Str("nope"), Num(42)},
      pl \in {Undefined, Str("starter"), Str("Starter"), Str("enterprise")},
      so \in {Undefined} }
  \cup { Bag1("email", Str("a@b.com")) @@ Bag1("plan", Str("starter"))
           @@ Bag1("source", Str("test")) }

PaymentBags ==
  { Bag1("amount", am) @@ Bag1("currency", cu) :
      am \in {Undefined, Num(100), Num(-5)},
      cu \in {Undefined, Str("EUR")} }

PageviewBags == { Bag1("path", pa) : pa \in {Undefined, Str("/test")} }

Bodies ==
  {Malformed}
  \cup { NonObject(k) : k \in {"null", "number", "string", "array"} }
  \cup { Obj(ev, << >>) :
           ev \in {Undefined, Str(""), Num(7), Str("unknown_event"),
                   Str("toString"), Str("Sign-Up v2.0"), Str("café_1")} }
  \cup { ObjNoProps(Str("pageview")) }
  \cup { Obj(Str("user_signed_up"), b) : b \in SignupBags }
  \cup { Obj(Str("payment_completed"), b) : b \in PaymentBags }
  \cup { Obj(Str("pageview"), b) : b \in PageviewBags }

\* value of the x-trackfast-validated header as the caller sent it
CallerHeaders == {NoHeader, "true"}

\* "gate": the request comes in through the middleware; "direct": the route
\* handler receives the caller's request as sent (route.ts:23, "if middleware
\* didn't catch it")
Entries == {"gate", "direct"}

\* tracking submissions, and the health request (GET, no body)
Requests ==
  [body : Bodies, hdrValidated : CallerHeaders, entry : Entries,
   method : {"POST"}]
  \cup [body : {EmptyBody}, hdrValidated : {NoHeader}, entry : Entries,
        method : {"GET"}]

EnvValues == {"", "set"}
Envs == [NEXT_PUBLIC_POSTHOG_KEY : EnvValues, NEXT_PUBLIC_GA4_ID : EnvValues,
         GA4_API_SECRET : EnvValues, NEXT_PUBLIC_PLAUSIBLE_DOMAIN : EnvValues,
         NODE_ENV : {"development", "production"}]

\* ------------------------------------------------------------------------
\* State
\* ------------------------------------------------------------------------
VARIABLES
  env,              \* process.env
  guardImpls,       \* the guard names the validator has a predicate for
  now,              \* the clock new Date() reads
  req,              \* the inbound request as the caller sent it
  gate,             \* position of validateTrackingRequest for this request
  gateMarked,       \* the gate executed requestHeaders.set(...) for this request
  routeReq,         \* the request handed to POST (headers and body), or NoRequest
  route,            \* position of POST for this request
  trackingPromises, \* POST's trackingPromises array
  outbound,         \* provider requests issued for this request
  failures,         \* POST's failures array (the settled results that failed)
  resp,             \* the response the caller receives, or NoResponse
  window,           \* analytics.ts runs where `window` is defined (a browser)
  posthogLoaded,    \* posthog.init(...) has run in this page or process
  sdkAt,            \* position of the analytics module and of its track call
  trackArgs,        \* the event passed to the track call in progress
  captures,         \* the posthog.capture calls made
  apiCalls,         \* the fetch('/api/track') calls made, each with how it ended
  trackResult       \* what the track call in progress returned, or NoResult

\* the state of the client SDK (src/lib/analytics.ts)
sdkVars == << window, posthogLoaded, sdkAt, trackArgs, captures, apiCalls,
              trackResult >>

\* the state of the server: middleware and route
serverVars == << guardImpls, req, gate, gateMarked, routeReq, route,
                 trackingPromises, outbound, failures, resp >>

vars == << env, guardImpls, now, req, gate, gateMarked, routeReq, route, trackingPromises,
           outbound, failures, resp, window, posthogLoaded, sdkAt, trackArgs,
           captures, apiCalls, trackResult >>

NoRequest == [present |-> FALSE, validated |-> NoHeader, event |-> NoHeader,
              timestamp |-> 0, body |-> Malformed]

\* kind, prop, allowed: what the validation error's message says; health,
\* posthog, ga4: the health report
NoResponse == [status |-> 0, error |-> "", details |-> "", success |-> FALSE,
               validated |-> FALSE, attempted |-> 0, successful |-> 0,
               failed |-> 0, availableEvents |-> << >>,
               kind |-> "", prop |-> "", allowed |-> {},
               health |-> FALSE, posthog |-> FALSE, ga4 |-> FALSE]

\* validateEvent as the running process evaluates it
validateEvent(name, bag) == validateEventWith(name, bag, guardImpls)

ErrorResponse(status, error, details) ==
  [NoResponse EXCEPT !.status = status, !.error = error, !.details = details]

\* what the caller's own request looks like to whoever receives it
AsSent(r) == [present |-> TRUE, validated |-> r.hdrValidated,
              event |-> NoHeader, timestamp |-> 0, body |-> r.body]

Arrive(r) ==
  /\ req' = r
  /\ gate' = IF r.entry = "gate" THEN "Received" ELSE "NotInvoked"
  /\ routeReq' = IF r.entry = "gate" THEN NoRequest ELSE AsSent(r)
  /\ gateMarked' = FALSE
  /\ route' = "idle"
  /\ trackingPromises' = << >>
  /\ outbound' = << >>
  /\ failures' = << >>
  /\ resp' = NoResponse

\* track has not returned anything (yet)
NoResult == [returned |-> FALSE, success |-> FALSE, method |-> "", error |-> ""]

\* no page or process has evaluated the analytics module
SdkUnloaded ==
  /\ posthogLoaded = FALSE
  /\ sdkAt = "unloaded"
  /\ trackArgs = ""
  /\ captures = << >>
  /\ apiCalls = << >>
  /\ trackResult = NoResult

Init ==
  /\ window = FALSE
  /\ SdkUnloaded
  /\ env \in Envs
  /\ guardImpls \in GuardRegistries
  /\ now = 1
  /\ \E r \in Requests :
       /\ req = r
       /\ gate = IF r.entry = "gate" THEN "Received" ELSE "NotInvoked"
       /\ routeReq = IF r.entry = "gate" THEN NoRequest ELSE AsSent(r)
  /\ gateMarked = FALSE
  /\ route = "idle"
  /\ trackingPromises = << >>
  /\ outbound = << >>
  /\ failures = << >>
  /\ resp = NoResponse

\* ------------------------------------------------------------------------
\* Edge Gate: middleware and validateTrackingRequest
\* ------------------------------------------------------------------------
\* middleware(): the path is /api/track, so validateTrackingRequest starts and
\* awaits request.text()
middleware ==
  /\ gate = "Received"
  /\ gate' = "ParsingPayload"
  /\ UNCHANGED << sdkVars, env, guardImpls, now, req, gateMarked, routeReq, route, trackingPromises,
                  outbound, failures, resp >>

InternalValidationError ==
  ErrorResponse(500, "Internal validation error",
                "Event validation system error")

GateParse_NoInnerCatch ==
  /\ gate = "ParsingPayload"
  /\ IF JsonParseThrows(req.body)
       THEN /\ gate' = "InternalFault"
            /\ resp' = InternalValidationError
       ELSE /\ gate' = "Validating"
            /\ resp' = resp
  /\ UNCHANGED << sdkVars, env, guardImpls, now, req, gateMarked, routeReq, route, trackingPromises,
                  outbound, failures >>

\* JSON.parse(body) in its own try/catch
GateParse ==
  /\ gate = "ParsingPayload"
  /\ IF JsonParseThrows(req.body)
       THEN /\ gate' = "ParseFailed"
            /\ resp' = ErrorResponse(400, "Invalid JSON payload",
                                     "Request body must be valid JSON")
       ELSE /\ gate' = "Validating"
            /\ resp' = resp
  /\ UNCHANGED << sdkVars, env, guardImpls, now, req, gateMarked, routeReq, route, trackingPromises,
                  outbound, failures >>

ValidationFailedResponse_Generic(r) ==
  ErrorResponse(400, "Event validation failed", "")

ValidationFailedResponse_DefaultStatus(r) ==
  [ErrorResponse(200, "Event validation failed", r.kind)
     EXCEPT !.kind = r.kind, !.prop = r.prop, !.allowed = r.allowed]

\* lines 60-69: whatever validateEvent threw is answered with its message
ValidationFailedResponse(r) ==
  [ErrorResponse(400, "Event validation failed", r.kind)
     EXCEPT !.kind = r.kind, !.prop = r.prop, !.allowed = r.allowed]

\* the outcome of lines 31-70 on a parsed payload
GateCheck(payload) ==
  IF payload.kind = "null" THEN
    \* payload.event on null throws a TypeError: the outer catch
    [state |-> "InternalFault", resp |-> InternalValidationError]
  ELSE IF ~Truthy(payload.event) \/ payload.event.t # "string" THEN
    [state |-> "ValidationFailed",
     resp |-> ErrorResponse(400, "Missing or invalid event name",
                            "Event must be a non-empty string")]
  ELSE IF ~InSchemas(payload.event.s) THEN
    [state |-> "ValidationFailed",
     resp |-> [ErrorResponse(400, "Unknown event", "Available events")
                 EXCEPT !.availableEvents = SchemaNames]]
  ELSE
    LET r == validateEvent(payload.event.s, payload.properties) IN
    IF r.outcome # "pass" THEN
      [state |-> "ValidationFailed", resp |-> ValidationFailedResponse(r)]
    ELSE [state |-> "Validated", resp |-> NoResponse]

GateValidate_FailOpen ==
  /\ gate = "Validating"
  /\ LET c == GateCheck(req.body) IN
       /\ gate' = IF c.state = "ValidationFailed" THEN "Validated" ELSE c.state
       /\ resp' = IF c.state = "ValidationFailed" THEN NoResponse ELSE c.resp
  /\ UNCHANGED << sdkVars, env, guardImpls, now, req, gateMarked, routeReq, route, trackingPromises,
                  outbound, failures >>

GateValidate ==
  /\ gate = "Validating"
  /\ LET c == GateCheck(req.body) IN
       /\ gate' = c.state
       /\ resp' = c.resp
  /\ UNCHANGED << sdkVars, env, guardImpls, now, req, gateMarked, routeReq, route, trackingPromises,
                  outbound, failures >>

GateForward_NoHeaders ==
  /\ gate = "Validated"
  /\ gate' = "Forwarded"
  /\ gateMarked' = FALSE
  /\ routeReq' = AsSent(req)
  /\ UNCHANGED << sdkVars, env, guardImpls, now, req, route, trackingPromises, outbound, failures,
                  resp >>

\* lines 72-88: set the x-trackfast-* headers on a copy of the request and
\* continue to the route with it
GateForward ==
  /\ gate = "Validated"
  /\ gate' = "Forwarded"
  /\ gateMarked' = TRUE
  /\ routeReq' = [present |-> TRUE, validated |-> "true",
                  event |-> req.body.event.s, timestamp |-> now,
                  body |-> req.body]
  /\ UNCHANGED << sdkVars, env, guardImpls, now, req, route, trackingPromises, outbound, failures,
                  resp >>

\* ------------------------------------------------------------------------
\* Dispatch boundary: POST of src/app/api/track/route.ts
\* ------------------------------------------------------------------------
PosthogEnabled(e) == EnvSet(e.NEXT_PUBLIC_POSTHOG_KEY)
Ga4Enabled_Either(e) ==
  EnvSet(e.NEXT_PUBLIC_GA4_ID) \/ EnvSet(e.GA4_API_SECRET)

Ga4Enabled(e) == EnvSet(e.NEXT_PUBLIC_GA4_ID) /\ EnvSet(e.GA4_API_SECRET)

\* const isValidated = request.headers.get('x-trackfast-validated') === 'true'
IsValidated(r) == r.validated = "true"

Pending(provider) ==
  [provider |-> provider, state |-> "pending", ok |-> FALSE, detail |-> "",
   outcome |-> ""]

\* the fetch(...).catch(...) promises pushed, in the order of the two if-blocks
Launch(e) ==
  (IF PosthogEnabled(e) THEN << Pending("posthog") >> ELSE << >>)
  \o (IF Ga4Enabled(e) THEN << Pending("ga4") >> ELSE << >>)

\* a JS string is a sequence of UTF-16 code units: the code units of the
\* event names the model's callers send, one string per code unit
CodeUnits(s) ==
  CASE s = "user_signed_up" ->
         << "u", "s", "e", "r", "_", "s", "i", "g", "n", "e", "d", "_", "u", "p" >>
    [] s = "pageview" ->
         << "p", "a", "g", "e", "v", "i", "e", "w" >>
    [] s = "payment_completed" ->
         << "p", "a", "y", "m", "e", "n", "t", "_", "c", "o", "m", "p", "l", "e", "t", "e", "d" >>
    [] s = "unknown_event" ->
         << "u", "n", "k", "n", "o", "w", "n", "_", "e", "v", "e", "n", "t" >>
    [] s = "toString" ->
         << "t", "o", "S", "t", "r", "i", "n", "g" >>
    [] s = "Sign-Up v2.0" ->
         << "S", "i", "g", "n", "-", "U", "p", " ", "v", "2", ".", "0" >>
    [] s = "café_1" ->
         << "c", "a", "f", "é", "_", "1" >>

\* the ranges a-z, A-Z and 0-9 of the character class
LowerCase ==
  { "a", "b", "c", "d", "e", "f", "g", "h", "i", "j", "k", "l", "m",
    "n", "o", "p", "q", "r", "s", "t", "u", "v", "w", "x", "y", "z" }
UpperCase ==
  { "A", "B", "C", "D", "E", "F", "G", "H", "I", "J", "K", "L", "M",
    "N", "O", "P", "Q", "R", "S", "T", "U", "V", "W", "X", "Y", "Z" }
Digits == { "0", "1", "2", "3", "4", "5", "6", "7", "8", "9" }

\* the code units the class [^a-zA-Z0-9_] does not match
WordUnits == LowerCase \cup UpperCase \cup Digits \cup {"_"}

Ga4Name_Raw(event) == CodeUnits(event)

\* event.replace(/[^a-zA-Z0-9_]/g, '_'): every code unit the class matches
\* becomes '_', the others are copied
Ga4Name(event) ==
  [k \in 1..Len(CodeUnits(event)) |->
     IF CodeUnits(event)[k] \notin WordUnits THEN "_" ELSE CodeUnits(event)[k]]

\* the event name in the body of a provider's request: PostHog gets `event`,
\* GA4 gets the sanitized name
ProviderEventName(provider, event) ==
  IF provider = "ga4" THEN Ga4Name(event) ELSE CodeUnits(event)

\* the provider request each pushed promise stands for
OutboundOf(promises, r) ==
  [i \in 1..Len(promises) |->
     [provider |-> promises[i].provider, event |-> r.body.event.s,
      name |-> ProviderEventName(promises[i].provider, r.body.event.s),
      properties |-> r.body.properties,
      validatedTag |-> IsValidated(r)]]

\* how a provider's fetch can end: a response with ok, a response without ok,
\* or a rejection (network error)
FetchOutcomes == {"ok", "notok", "error"}

\* fetch(...).catch(error => ({ ok: false, provider, error })): a rejection
\* becomes a fulfilled { ok: false }, a response is passed through
\* (outcome records how the fetch itself ended)
FetchSettled_AnyResponseOk(p, o) ==
  IF o = "error"
    THEN [p EXCEPT !.state = "fulfilled", !.ok = FALSE, !.detail = "error",
                   !.outcome = o]
    ELSE [p EXCEPT !.state = "fulfilled", !.ok = TRUE, !.detail = "response",
                   !.outcome = o]

FetchSettled(p, o) ==
  IF o = "error"
    THEN [p EXCEPT !.state = "fulfilled", !.ok = FALSE, !.detail = "error",
                   !.outcome = o]
    ELSE [p EXCEPT !.state = "fulfilled", !.ok = (o = "ok"),
                   !.detail = "response", !.outcome = o]

\* results.filter(result => result.status === 'fulfilled' && result.value.ok)
IsSuccess(result) == result.state = "fulfilled" /\ result.ok
IsFailure_RejectedOnly(result) == result.state = "rejected"

\* results.filter(result => result.status === 'rejected' || !result.value.ok)
IsFailure(result) == result.state = "rejected" \/ ~result.ok

AllSettled_Race(promises) ==
  promises = << >> \/ \E i \in 1..Len(promises) : promises[i].state # "pending"

\* Promise.allSettled(trackingPromises) resolves once no promise is pending
AllSettled(promises) ==
  \A i \in 1..Len(promises) : promises[i].state # "pending"

FaultDetails_Always(e, message) == message

\* details: process.env.NODE_ENV === 'development' ? error.message : undefined
FaultDetails(e, message) ==
  IF e.NODE_ENV = "development" THEN message ELSE ""

\* the message of the error request.json() or the destructuring throws
FaultMessage(payload) ==
  IF JsonParseThrows(payload) THEN "SyntaxError: Unexpected token"
  ELSE "TypeError: Cannot destructure property 'event' of null"

\* lines 5-95: read the payload and the headers, fall-back validation, launch
\* one fetch per configured provider, then await Promise.allSettled
POST_Start ==
  /\ routeReq.present
  /\ req.method = "POST"
  /\ route = "idle"
  /\ resp = NoResponse
  /\ LET payload == routeReq.body IN
       IF JsonParseThrows(payload) \/ payload.kind = "null" THEN
         \* request.json() rejects, or destructuring null throws: outer catch
         /\ resp' = ErrorResponse(500, "Internal server error",
                                  FaultDetails(env, FaultMessage(payload)))
         /\ route' = "done"
         /\ UNCHANGED << trackingPromises, outbound >>
       ELSE IF ~Truthy(payload.event) \/ payload.event.t # "string" THEN
         /\ resp' = ErrorResponse(400, "Event name is required", "")
         /\ route' = "done"
         /\ UNCHANGED << trackingPromises, outbound >>
       ELSE
         /\ trackingPromises' = Launch(env)
         /\ outbound' = OutboundOf(Launch(env), routeReq)
         /\ route' = "awaiting"
         /\ resp' = resp
  /\ UNCHANGED << sdkVars, env, guardImpls, now, req, gate, gateMarked, routeReq, failures >>

\* one provider's fetch settles
Settle ==
  /\ route = "awaiting"
  /\ \E i \in 1..Len(trackingPromises), o \in FetchOutcomes :
       /\ trackingPromises[i].state = "pending"
       /\ trackingPromises' =
            [trackingPromises EXCEPT ![i] = FetchSettled(@, o)]
  /\ UNCHANGED << sdkVars, env, guardImpls, now, req, gate, gateMarked, routeReq, route, outbound,
                  failures, resp >>

POST_Report_FailOnZero ==
  /\ route = "awaiting"
  /\ AllSettled(trackingPromises)
  /\ LET results == trackingPromises
         successes == Len(SelectSeq(results, IsSuccess))
         failed == SelectSeq(results, IsFailure)
     IN /\ failures' = failed
        /\ resp' = IF successes = 0
                     THEN ErrorResponse(500, "Internal server error", "")
                     ELSE [NoResponse EXCEPT !.status = 200, !.success = TRUE,
                             !.validated = IsValidated(routeReq),
                             !.attempted = Len(trackingPromises),
                             !.successful = successes,
                             !.failed = Len(failed)]
  /\ route' = "done"
  /\ UNCHANGED << sdkVars, env, guardImpls, now, req, gate, gateMarked, routeReq, trackingPromises,
                  outbound >>

\* lines 95-132: allSettled resolves, count, respond
POST_Report ==
  /\ route = "awaiting"
  /\ AllSettled(trackingPromises)
  /\ LET results == trackingPromises
         successes == Len(SelectSeq(results, IsSuccess))
         failed == SelectSeq(results, IsFailure)
     IN /\ failures' = failed
        /\ resp' = [NoResponse EXCEPT !.status = 200, !.success = TRUE,
                      !.validated = IsValidated(routeReq),
                      !.attempted = Len(trackingPromises),
                      !.successful = successes,
                      !.failed = Len(failed)]
  /\ route' = "done"
  /\ UNCHANGED << sdkVars, env, guardImpls, now, req, gate, gateMarked, routeReq, trackingPromises,
                  outbound >>

\* the health check endpoint
GET ==
  /\ routeReq.present
  /\ req.method = "GET"
  /\ route = "idle"
  /\ resp = NoResponse
  /\ resp' = [NoResponse EXCEPT !.status = 200, !.health = TRUE,
                !.posthog = EnvSet(env.NEXT_PUBLIC_POSTHOG_KEY),
                !.ga4 = (EnvSet(env.NEXT_PUBLIC_GA4_ID)
                           /\ EnvSet(env.GA4_API_SECRET))]
  /\ route' = "done"
  /\ UNCHANGED << sdkVars, env, guardImpls, now, req, gate, gateMarked, routeReq,
                  trackingPromises, outbound, failures >>

\* the caller, having been answered, sends the next request
NewRequest ==
  /\ resp # NoResponse
  /\ now < MaxClock
  /\ now' = now + 1
  /\ \E r \in Requests : Arrive(r)
  /\ UNCHANGED << sdkVars, env, guardImpls >>

Next ==
  \/ middleware
  \/ GateParse
  \/ GateValidate
  \/ GateForward
  \/ POST_Start
  \/ Settle
  \/ POST_Report
  \/ GET
  \/ NewRequest

Spec == Init /\ [][Next]_vars

\* the runtime runs a request's own continuations whenever they are ready;
\* nothing obliges a remote provider to answer or the caller to send more
FairSpec ==
  /\ Spec
  /\ WF_vars(middleware)
  /\ WF_vars(GateParse)
  /\ WF_vars(GateValidate)
  /\ WF_vars(GateForward)
  /\ WF_vars(POST_Start)
  /\ WF_vars(POST_Report)
  /\ WF_vars(GET)

\* ------------------------------------------------------------------------
\* Client SDK: src/lib/analytics.ts
\* ------------------------------------------------------------------------
\* the events the application tracks
TrackEvents == {"pageview", "user_signed_up", "Sign-Up v2.0"}

\* `posthog`, the default export of posthog-js, as a condition: an object is
\* truthy, whether or not init has run on it
PosthogImported == TRUE

\* lines 120-129, on module evaluation: init only in a browser with a key
SdkLoad ==
  /\ sdkAt = "unloaded"
  /\ sdkAt' = "ready"
  /\ posthogLoaded' = (window /\ EnvSet(env.NEXT_PUBLIC_POSTHOG_KEY))
  /\ UNCHANGED << serverVars, env, now, window, trackArgs, captures, apiCalls,
                  trackResult >>

\* lines 141-163: build the payload; in a browser capture and return,
\* otherwise POST the payload to /api/track and await the response
track ==
  /\ sdkAt = "ready"
  /\ \E event \in TrackEvents :
       /\ trackArgs' = event
       /\ IF window /\ PosthogImported
            THEN /\ captures' =
                      Append(captures,
                             [call |-> now, event |-> event,
                              lib_version |-> "0.1.0", timestamp |-> now,
                              initialised |-> posthogLoaded])
                 /\ trackResult' = [returned |-> TRUE, success |-> TRUE,
                                    method |-> "client", error |-> ""]
                 /\ sdkAt' = "returned"
                 /\ apiCalls' = apiCalls
            ELSE /\ apiCalls' =
                      Append(apiCalls,
                             [call |-> now, event |-> event,
                              lib_version |-> "0.1.0", timestamp |-> now,
                              outcome |-> "pending"])
                 /\ sdkAt' = "fetching"
                 /\ UNCHANGED << captures, trackResult >>
  /\ UNCHANGED << serverVars, env, now, window, posthogLoaded >>

\* lines 165-173: the fetch ends; a response that is not ok throws inside the
\* try, and the catch turns that and a rejected fetch into a failure value
trackFetchEnds ==
  /\ sdkAt = "fetching"
  /\ \E o \in FetchOutcomes :
       /\ apiCalls' = [apiCalls EXCEPT ![Len(apiCalls)].outcome = o]
       /\ trackResult' =
            CASE o = "ok" -> [returned |-> TRUE, success |-> TRUE,
                              method |-> "server", error |-> ""]
              [] o = "notok" -> [returned |-> TRUE, success |-> FALSE,
                                 method |-> "",
                                 error |-> "Tracking failed: statusText"]
              [] OTHER -> [returned |-> TRUE, success |-> FALSE,
                           method |-> "", error |-> "fetch failed"]
  /\ sdkAt' = "returned"
  /\ UNCHANGED << serverVars, env, now, window, posthogLoaded, trackArgs,
                  captures >>

\* the application, having the result, is ready to track the next event
trackReturned ==
  /\ sdkAt = "returned"
  /\ now < MaxClock
  /\ now' = now + 1
  /\ sdkAt' = "ready"
  /\ trackArgs' = ""
  /\ trackResult' = NoResult
  /\ UNCHANGED << serverVars, env, window, posthogLoaded, captures, apiCalls >>

\* process.env as the SDK's bundle sees it: the server-only and the other
\* providers' variables play no part in it
SdkEnvs ==
  { e \in Envs : /\ e.NEXT_PUBLIC_GA4_ID = ""
                 /\ e.GA4_API_SECRET = ""
                 /\ e.NEXT_PUBLIC_PLAUSIBLE_DOMAIN = "" }

\* the SDK on its own, in a browser or on the server, with the answers of
\* /api/track left open; no request is in flight at the server
SdkInit ==
  /\ window \in BOOLEAN
  /\ SdkUnloaded
  /\ env \in SdkEnvs
  /\ guardImpls = DeclaredGuards
  /\ now = 1
  /\ req = [body |-> EmptyBody, hdrValidated |-> NoHeader, entry |-> "direct",
            method |-> "GET"]
  /\ gate = "NotInvoked"
  /\ gateMarked = FALSE
  /\ routeReq = NoRequest
  /\ route = "idle"
  /\ trackingPromises = << >>
  /\ outbound = << >>
  /\ failures = << >>
  /\ resp = NoResponse

SdkNext ==
  \/ SdkLoad
  \/ track
  \/ trackFetchEnds
  \/ trackReturned

SdkSpec == SdkInit /\ [][SdkNext]_vars

TypeOK ==
  /\ env \in Envs
  /\ guardImpls \in GuardRegistries
  /\ now \in 1..MaxClock
  /\ req \in Requests
  /\ gate \in {"NotInvoked", "Received", "ParsingPayload", "ParseFailed",
               "Validating", "ValidationFailed", "Validated", "Forwarded",
               "InternalFault"}
  /\ gateMarked \in BOOLEAN
  /\ route \in {"idle", "awaiting", "done"}
  /\ Len(trackingPromises) <= 2
  /\ resp.status \in {0, 200, 400, 500}

\* ------------------------------------------------------------------------
\* Properties
\* ------------------------------------------------------------------------
\* the caller has the dispatch report: the success response of POST
Reported == resp.status = 200 /\ resp.success

\* POST launched its provider requests for this request
DispatchStarted ==
  req.method = "POST" /\ route \in {"awaiting", "done"} /\ resp.status \in {0, 200}

\* the event of a request fails validation at the gate: its name is missing,
\* not a string or unknown, or a declared property is violated
FailsValidation(body) ==
  /\ body.kind \notin {"malformed", "empty", "null"}
  /\ \/ ~Truthy(body.event)
     \/ body.event.t # "string"
     \/ body.event.s \notin DOMAIN eventSchemas
     \/ validateEvent(body.event.s, body.properties).outcome = "fail"

GateDecided == gate \notin {"Received", "ParsingPayload", "Validating"}

\* C1: a POST that comes in through the gate and whose event fails
\* validation there ends in the 400 response, is never handed to the route,
\* and no provider request is ever issued for it.
C1_RejectedNeverDispatched ==
  (req.entry = "gate" /\ FailsValidation(req.body)) =>
     /\ ~routeReq.present
     /\ route = "idle"
     /\ trackingPromises = << >>
     /\ outbound = << >>
     /\ resp.status \in {0, 400}
     /\ GateDecided => (gate = "ValidationFailed" /\ resp.status = 400)

C1_Witness ==
  /\ gate = "ValidationFailed"
  /\ resp.status = 400
  /\ req.body.event = Str("user_signed_up")
  /\ ~Has(req.body.properties, "email")
  /\ PosthogEnabled(env) /\ Ga4Enabled(env)

\* the transitions of the per-request state machine; a new request starts
\* over, and an internal fault leaves Validating for the server-error outcome
GateEdges ==
  { << "Received", "ParsingPayload" >>,
    << "ParsingPayload", "ParseFailed" >>,
    << "ParsingPayload", "Validating" >>,
    << "Validating", "ValidationFailed" >>,
    << "Validating", "Validated" >>,
    << "Validating", "InternalFault" >>,
    << "Validated", "Forwarded" >> }

GateStartsOver == gate' \in {"Received", "NotInvoked"} /\ now' = now + 1

\* C2: a request handled by the gate moves only along Received ->
\* ParsingPayload -> {ParseFailed | Validating} -> {ValidationFailed |
\* Validated} -> Forwarded; it is handed to the route only in Forwarded, and
\* then carries the marker (validated "true", the validated event name, the
\* validation timestamp); a request in ParseFailed or ValidationFailed never
\* has the marker attached and is never handed on.
C2_GateStateMachine ==
  [][ /\ (gate' # gate) => (<< gate, gate' >> \in GateEdges \/ GateStartsOver)
      /\ (gate' = "Forwarded") =>
           /\ gate \in {"Validated", "Forwarded"}
           /\ gateMarked'
           /\ routeReq'.present
           /\ routeReq'.validated = "true"
           /\ routeReq'.event = req'.body.event.s
           /\ routeReq'.timestamp = now'
           /\ routeReq'.body = req'.body
      /\ (req'.entry = "gate" /\ routeReq'.present) => gate' = "Forwarded"
      /\ (gate' \in {"ParseFailed", "ValidationFailed"}) =>
           (~gateMarked' /\ ~routeReq'.present)
    ]_vars

C2_Witness ==
  /\ gate = "Forwarded"
  /\ gateMarked
  /\ req.hdrValidated = NoHeader
  /\ routeReq.validated = "true"
  /\ routeReq.event = "user_signed_up"

\* C3: the route reports validated: true, and tags the provider payloads as
\* validated, only for a request on which the gate set the marker; a marker
\* the caller sent is not taken as proof of validation.
C3_MarkerOnlyFromGate ==
  /\ (Reported /\ resp.validated) => gateMarked
  /\ \A i \in 1..Len(outbound) : outbound[i].validatedTag => gateMarked

\* a provider's required credentials are all present
CredentialsPresent(p) ==
  IF p = "posthog" THEN env.NEXT_PUBLIC_POSTHOG_KEY # ""
  ELSE env.NEXT_PUBLIC_GA4_ID # "" /\ env.GA4_API_SECRET # ""

EnabledProviders == { p \in {"posthog", "ga4"} : CredentialsPresent(p) }

\* C4: the reported attempted count is the number of providers whose
\* credentials are present; a provider with a missing credential gets no
\* outbound request and is not counted.
C4_AttemptedIsEnabled ==
  /\ Reported => resp.attempted = Cardinality(EnabledProviders)
  /\ DispatchStarted =>
       /\ { outbound[i].provider : i \in 1..Len(outbound) } = EnabledProviders
       /\ Len(outbound) = Cardinality(EnabledProviders)
  /\ \A i \in 1..Len(outbound) : outbound[i].provider \in EnabledProviders

C4_Witness ==
  /\ Reported
  /\ resp.attempted = 1
  /\ env.NEXT_PUBLIC_GA4_ID # "" /\ env.GA4_API_SECRET = ""
  /\ Len(outbound) = 1 /\ outbound[1].provider = "posthog"

\* C5: in every report, succeeded plus failed equals attempted.
C5_CountsAddUp ==
  Reported =>
    /\ resp.successful + resp.failed = resp.attempted
    /\ resp.failed = Len(failures)

C5_Witness ==
  /\ Reported
  /\ resp.attempted = 2
  /\ \E i, j \in 1..2 : /\ trackingPromises[i].outcome = "notok"
                        /\ trackingPromises[j].outcome = "error"
                        /\ i # j

FetchOk(i) == trackingPromises[i].outcome = "ok"

\* C6: a provider counts as succeeded exactly when its fetch ended in a
\* response that indicates success; every other attempt (transport error,
\* non-success response) is among the failures, in invocation order, however
\* the other provider fared.
C6_SuccessOnlyOnOkResponse ==
  Reported =>
    /\ resp.successful =
         Cardinality({ i \in 1..Len(trackingPromises) : FetchOk(i) })
    /\ resp.failed =
         Cardinality({ i \in 1..Len(trackingPromises) : ~FetchOk(i) })
    /\ failures = SelectSeq(trackingPromises, LAMBDA r : r.outcome # "ok")

C6_Witness ==
  /\ Reported
  /\ resp.attempted = 2 /\ resp.successful = 1 /\ resp.failed = 1
  /\ trackingPromises[1].outcome = "notok"
  /\ trackingPromises[2].outcome = "ok"
  /\ Len(failures) = 1 /\ failures[1].provider = "posthog"

SomePending ==
  \E i \in 1..Len(trackingPromises) : trackingPromises[i].state = "pending"

\* C7: every enabled provider is launched before any is awaited, and the
\* report is produced only when no attempt is outstanding, whatever the order
\* of completion and whether or not one has already failed.
C7_ReportAfterAllSettle ==
  /\ SomePending => (resp = NoResponse /\ route = "awaiting")
  /\ DispatchStarted =>
       Len(trackingPromises) = Cardinality(EnabledProviders)
  /\ Reported =>
       \A i \in 1..Len(trackingPromises) :
          trackingPromises[i].outcome \in FetchOutcomes

C7_Witness ==
  /\ route = "awaiting"
  /\ Len(trackingPromises) = 2
  /\ trackingPromises[1].state = "pending"
  /\ trackingPromises[2].outcome = "error"
  /\ resp = NoResponse

\* the route got past its own check of the event name, so dispatch ran
Dispatched ==
  /\ routeReq.present
  /\ req.method = "POST"
  /\ routeReq.body.kind \notin {"malformed", "empty", "null"}
  /\ Truthy(routeReq.body.event)
  /\ routeReq.body.event.t = "string"

\* C8: once dispatch ran, the caller gets the success response with the
\* report whatever the providers did: also when every attempt failed, and
\* with no provider enabled (attempted 0, succeeded 0, no failures).
C8_DispatchNeverFailsCall ==
  (route = "done" /\ Dispatched) =>
    /\ Reported
    /\ resp.success
    /\ resp.error = ""
    /\ EnabledProviders = {} =>
         (resp.attempted = 0 /\ resp.successful = 0 /\ resp.failed = 0
            /\ failures = << >>)

C8_Witness ==
  /\ route = "done"
  /\ Reported
  /\ resp.attempted = 2 /\ resp.successful = 0 /\ resp.failed = 2

\* C9: every request is eventually answered, also when a provider call
\* never completes.
C9_AlwaysAnswered == (resp = NoResponse) ~> (resp # NoResponse)

\* C10: a provider attempt that is pending is eventually settled (by its
\* response or by the timeout), so none stays pending forever.
C10_PendingIsSettled ==
  \A p \in {"posthog", "ga4"} :
    (\E i \in 1..Len(trackingPromises) :
        trackingPromises[i].provider = p /\ trackingPromises[i].state = "pending")
    ~> (\A i \in 1..Len(trackingPromises) :
          trackingPromises[i].provider = p =>
            trackingPromises[i].state # "pending")

\* a tracking submission that comes in through the gate
ThroughGate == req.entry = "gate" /\ req.method = "POST"

\* C11: a submission whose body is not parseable JSON ends in ParseFailed
\* with the 400 "Invalid JSON payload" response and nothing else happens to
\* it: the gate never enters Validating (where the validator is called), sets
\* no marker and hands nothing to the route.
C11_MalformedEndsInParseFailed ==
  (ThroughGate /\ req.body.kind = "malformed") =>
     /\ gate \in {"Received", "ParsingPayload", "ParseFailed"}
     /\ ~gateMarked
     /\ ~routeReq.present
     /\ route = "idle"
     /\ outbound = << >>
     /\ IF gate = "ParseFailed"
          THEN resp.status = 400 /\ resp.error = "Invalid JSON payload"
          ELSE resp = NoResponse

C11_Witness ==
  /\ ThroughGate
  /\ req.body.kind = "malformed"
  /\ gate = "ParseFailed"
  /\ resp.status = 400

\* the payload names an event with a non-empty string
NamesEvent(body) ==
  body.kind = "object" /\ body.event.t = "string" /\ body.event.s # ""

\* C12: for every event name that is not a key of the registry, the gate
\* answers 400 "Unknown event" with the list of exactly the registry's event
\* names, in registration order.
C12_UnknownEventEnumerated ==
  (ThroughGate /\ NamesEvent(req.body)
     /\ req.body.event.s \notin { SchemaNames[i] : i \in 1..Len(SchemaNames) }
     /\ GateDecided) =>
       /\ resp.status = 400
       /\ resp.error = "Unknown event"
       /\ resp.availableEvents = SchemaNames

\* the payload names an event of the registry
KnownEventBody(body) ==
  NamesEvent(body) /\ body.event.s \in DOMAIN eventSchemas

DeclaredProps(body) == eventSchemas[body.event.s].properties

\* declared property i is required, has no default, and is absent
MissingRequiredAt(body, i) ==
  LET p == DeclaredProps(body)[i] IN
    p.required /\ ~p.hasDefault /\ ~Has(body.properties, p.name)

\* declared property i is an enum and the value given is not one of its values
EnumViolationAt(body, i) ==
  LET p == DeclaredProps(body)[i] IN
    /\ p.kind = "enum"
    /\ Has(body.properties, p.name)
    /\ body.properties[p.name].t = "string"
    /\ body.properties[p.name].s \notin p.enumValues

\* declared property i, taken alone, is in order
PropInOrder(body, i) ==
  LET p == DeclaredProps(body)[i] IN
    IF Has(body.properties, p.name)
      THEN /\ body.properties[p.name].t =
                (IF p.kind = "enum" THEN "string" ELSE p.kind)
           /\ p.kind = "enum" => body.properties[p.name].s \in p.enumValues
      ELSE p.hasDefault \/ ~p.required

\* no property declared before i is in violation
FirstViolation(body, i) == \A j \in 1..(i - 1) : PropInOrder(body, j)

\* C13 as stated: whenever a required property P without default is absent,
\* the answer is 400 with a MissingRequired failure naming P.
C13_MissingRequiredNamed ==
  (ThroughGate /\ KnownEventBody(req.body) /\ GateDecided) =>
    \A i \in 1..Len(DeclaredProps(req.body)) :
      MissingRequiredAt(req.body, i) =>
        /\ resp.status = 400
        /\ resp.kind = "MissingRequired"
        /\ resp.prop = DeclaredProps(req.body)[i].name

\* C13 (amended): whenever a required property P without default is absent,
\* the answer is 400 and the event is not forwarded; the failure is
\* MissingRequired naming P when no property declared before P is itself in
\* violation (the validator stops at the first violation in declaration
\* order).
C13_MissingRequiredFirst ==
  (ThroughGate /\ KnownEventBody(req.body) /\ GateDecided) =>
    \A i \in 1..Len(DeclaredProps(req.body)) :
      MissingRequiredAt(req.body, i) =>
        /\ resp.status = 400
        /\ gate = "ValidationFailed"
        /\ FirstViolation(req.body, i) =>
             /\ resp.kind = "MissingRequired"
             /\ resp.prop = DeclaredProps(req.body)[i].name

C13_Witness ==
  /\ ThroughGate
  /\ req.body.event = Str("user_signed_up")
  /\ Has(req.body.properties, "email")
  /\ ~Has(req.body.properties, "plan")
  /\ resp.status = 400
  /\ resp.kind = "MissingRequired"
  /\ resp.prop = "plan"

\* C14 as stated: whenever an enum property is given a value outside its
\* enumValues, the answer is 400 with an EnumViolation failure listing
\* exactly the declared values.
C14_EnumViolationListed ==
  (ThroughGate /\ KnownEventBody(req.body) /\ GateDecided) =>
    \A i \in 1..Len(DeclaredProps(req.body)) :
      EnumViolationAt(req.body, i) =>
        /\ resp.status = 400
        /\ resp.kind = "EnumViolation"
        /\ resp.prop = DeclaredProps(req.body)[i].name
        /\ resp.allowed = DeclaredProps(req.body)[i].enumValues

\* C14 (amended): whenever an enum property is given a value outside its
\* enumValues (compared exactly, case-sensitively), the answer is 400 and the
\* event is not forwarded; the failure is EnumViolation listing exactly the
\* declared values when no property declared before it is itself in
\* violation.
C14_EnumViolationFirst ==
  (ThroughGate /\ KnownEventBody(req.body) /\ GateDecided) =>
    \A i \in 1..Len(DeclaredProps(req.body)) :
      EnumViolationAt(req.body, i) =>
        /\ resp.status = 400
        /\ gate = "ValidationFailed"
        /\ FirstViolation(req.body, i) =>
             /\ resp.kind = "EnumViolation"
             /\ resp.prop = DeclaredProps(req.body)[i].name
             /\ resp.allowed = DeclaredProps(req.body)[i].enumValues

C14_Witness ==
  /\ ThroughGate
  /\ req.body.event = Str("user_signed_up")
  /\ Get(req.body.properties, "plan") = Str("Starter")
  /\ resp.status = 400
  /\ resp.kind = "EnumViolation"
  /\ resp.prop = "plan"
  /\ resp.allowed = {"free", "starter", "growth"}

\* C15: when a validated event omits a property that has a defaultValue,
\* every provider request for the event contains that default.
C15_DefaultsReachProviders ==
  (gateMarked /\ KnownEventBody(req.body)) =>
    \A i \in 1..Len(outbound) :
      \A j \in 1..Len(DeclaredProps(req.body)) :
        LET p == DeclaredProps(req.body)[j] IN
          (p.hasDefault /\ ~Has(req.body.properties, p.name)) =>
             /\ Has(outbound[i].properties, p.name)
             /\ outbound[i].properties[p.name] = p.defaultValue

\* an error reaches the outer catch of the gate (nothing more specific
\* handles it)
GateUnhandledFault == ThroughGate /\ req.body.kind = "null" /\ GateDecided

\* an error reaches the outer catch of POST
RouteUnhandledFault ==
  /\ req.method = "POST"
  /\ routeReq.present
  /\ route = "done"
  /\ JsonParseThrows(routeReq.body) \/ routeReq.body.kind = "null"

\* what a generic server-error body may say
GenericDetails == {"", "Event validation system error"}

C17_HealthThroughPipeline ==
  (req.method = "GET" /\ req.entry = "gate" /\ GateDecided) =>
     /\ resp.status = 200
     /\ resp.health
     /\ resp.posthog = CredentialsPresent("posthog")
     /\ resp.ga4 = CredentialsPresent("ga4")

\* C18: with Plausible's domain configured, a tracking call also attempts
\* Plausible and counts it in the report.
C18_PlausibleAttempted ==
  (Reported /\ env.NEXT_PUBLIC_PLAUSIBLE_DOMAIN # "") =>
     /\ \E i \in 1..Len(outbound) : outbound[i].provider = "plausible"
     /\ resp.attempted = Cardinality(EnabledProviders) + 1

\* C19: an error thrown by the validator that is not a verdict on the event
\* (such as a guard without implementation) is answered as the generic
\* server error, never as a validation failure of the event carrying the
\* error's message.
C19_ValidatorFaultIsServerError ==
  (ThroughGate /\ KnownEventBody(req.body) /\ GateDecided
     /\ validateEvent(req.body.event.s, req.body.properties).outcome = "fault")
  => /\ resp.status = 500
     /\ resp.error # "Event validation failed"
     /\ resp.kind = ""

\* C20: a body that parses as JSON but is not an object with a non-empty
\* string event (null, a number, a string, an array, an object without event)
\* is answered by the gate with 400 "Missing or invalid event name", never 500.
C20_BadStructureIs400 ==
  (ThroughGate /\ ~JsonParseThrows(req.body) /\ ~NamesEvent(req.body)
     /\ GateDecided)
  => /\ resp.status = 400
     /\ resp.error = "Missing or invalid event name"

\* the letters among the code units of the names sent: the ASCII ones, and
\* those outside ASCII
AsciiLetters == LowerCase \cup UpperCase
AllLetters == AsciiLetters \cup {"é"}

\* sent is orig with every code unit outside kept replaced by '_'
ReplacedOutside(orig, sent, kept) ==
  /\ Len(sent) = Len(orig)
  /\ \A k \in 1..Len(orig) :
       sent[k] = IF orig[k] \in kept THEN orig[k] ELSE "_"

\* the event name as the caller sent it
OriginalName == CodeUnits(req.body.event.s)

\* C21 as stated: the name sent to GA4 is the event name with each character
\* outside letters, digits and underscore replaced by '_' (same length,
\* allowed characters, letters of any alphabet among them, unchanged); the
\* name sent to PostHog is the event name unmodified.
C21_ProviderNames ==
  \A i \in 1..Len(outbound) :
    IF outbound[i].provider = "ga4"
      THEN ReplacedOutside(OriginalName, outbound[i].name,
                           AllLetters \cup Digits \cup {"_"})
      ELSE outbound[i].name = OriginalName

\* C21 (amended): the name sent to GA4 is the event name with each UTF-16
\* code unit outside a-z, A-Z, 0-9 and '_' replaced by '_' (same length, those
\* code units unchanged; a letter outside ASCII is replaced too); the name
\* sent to PostHog is the event name unmodified.
C21_ProviderNamesAscii ==
  \A i \in 1..Len(outbound) :
    IF outbound[i].provider = "ga4"
      THEN ReplacedOutside(OriginalName, outbound[i].name,
                           AsciiLetters \cup Digits \cup {"_"})
      ELSE outbound[i].name = OriginalName

C21_Witness ==
  /\ req.body.event = Str("Sign-Up v2.0")
  /\ Len(outbound) = 2
  /\ outbound[1].provider = "posthog"
  /\ outbound[1].name =
       << "S", "i", "g", "n", "-", "U", "p", " ", "v", "2", ".", "0" >>
  /\ outbound[2].provider = "ga4"
  /\ outbound[2].name =
       << "S", "i", "g", "n", "_", "U", "p", "_", "v", "2", "_", "0" >>

\* the track call in progress has been made and has not yet been discarded
TrackCalled == sdkAt \in {"fetching", "returned"}

\* the event of the call in progress was sent to /api/track
SentToRoute ==
  \E i \in 1..Len(apiCalls) :
    apiCalls[i].call = now /\ apiCalls[i].event = trackArgs

\* ... and the route accepted it
AcceptedByRoute ==
  \E i \in 1..Len(apiCalls) :
    /\ apiCalls[i].call = now
    /\ apiCalls[i].event = trackArgs
    /\ apiCalls[i].outcome = "ok"

\* the event of the call in progress was handed to a PostHog client on which
\* init had run
HandedToInitialisedClient ==
  \E i \in 1..Len(captures) :
    /\ captures[i].call = now
    /\ captures[i].event = trackArgs
    /\ captures[i].initialised

\* the server call of the call in progress failed (no ok response)
ServerCallFailed ==
  \E i \in 1..Len(apiCalls) :
    apiCalls[i].call = now /\ apiCalls[i].outcome \in {"notok", "error"}

\* C22: when client-side PostHog was not initialised (no key, or no browser),
\* track sends the event to /api/track; track returns success only for an
\* event handed to an initialised client or accepted by the route; a failed
\* server call gives a returned failure value.
C22_FallbackWhenClientUnavailable ==
  /\ (TrackCalled /\ ~posthogLoaded) => SentToRoute
  /\ (trackResult.returned /\ trackResult.success) =>
       (HandedToInitialisedClient \/ AcceptedByRoute)
  /\ ServerCallFailed =>
       (trackResult.returned /\ ~trackResult.success /\ trackResult.error # "")

====
